---------------------------- MODULE Spec2Model ----------------------------
(***************************************************************************)
(* FragToPre: the dual-pass ion-mobility binner (im_binning.py) and the    *)
(* adaptive peak picker (peak_picker_im.py).                               *)
(*                                                                         *)
(* Spec   : the main program of im_binning.py: setup_bins, then            *)
(*          bin_spectrum on every MS-level-1 spectrum, in input order.     *)
(* SpecPP : peak_pick of peak_picker_im.py on one spectrum, one seed       *)
(*          visit per step.                                                *)
(*                                                                         *)
(* Floating point numbers are modelled by exact arithmetic: ion mobility,  *)
(* m/z, positions and intensities are integers (grid units), bin_size and  *)
(* offset_im are exact fractions [n, d] with d > 0, and a composite peak's *)
(* position is the exact fraction posNum / posDen.                         *)
(***************************************************************************)
EXTENDS Integers, Sequences, FiniteSets, TLC

VARIABLES
    \* ---- im_binning.py ----
    spectra,    \* exp.getSpectra(): Seq of [ms, rt, pts], pts: Seq of [rt, mz, inten, im]
    num_bins,   \* args.num_bins
    first_im, last_im, delta_im, bin_size, offset_im,
    bins, exps,     \* pass 1: per bin, the points and the synthesized spectra
    bins2, exps2,   \* pass 2 (bins shifted by half a bin)
    i,          \* index of the main loop over spectra (1-based)
    pc,         \* "setup_bins" | "main_loop" | "done" | "ZeroDivisionError" | "IndexError"
    \* ---- peak_picker_im.py ----
    spec,       \* the spectrum being picked, sorted by position: Seq of [pos, inten]
    min_req, window_size, small_peak, strict, sequential,
    picked,     \* picked[k]: sample k belongs to an accepted span
    new_spec,   \* the emitted composite peaks
    idx,        \* index of the seed loop (1-based)
    last,       \* what the latest seed visit did (history of the two walks)
    ppc         \* "idle" | "picking" | "done" | "ZeroDivisionError"

binvars == <<spectra, num_bins, first_im, last_im, delta_im, bin_size, offset_im,
             bins, exps, bins2, exps2, i, pc>>
ppvars  == <<spec, min_req, window_size, small_peak, strict, sequential,
             picked, new_spec, idx, last, ppc>>
vars    == <<binvars, ppvars>>

(***************************************************************************)
(* Bounds of the model.                                                    *)
(***************************************************************************)
MaxScans  == 2      \* spectra in the experiment
MaxPoints == 2      \* points in the whole experiment
MaxIM     == 2      \* ion mobility values are 0 .. MaxIM
MaxBins   == 2      \* num_bins is -1 .. MaxBins
MaxLen    == 4      \* samples in the spectrum given to peak_pick
MaxReq    == 2      \* min_req is 0 .. MaxReq

MZs == {1, 2}

(***************************************************************************)
(* Arithmetic helpers.                                                     *)
(***************************************************************************)
Abs(x) == IF x < 0 THEN -x ELSE x

SetMin(S) == CHOOSE x \in S : \A y \in S : x <= y
SetMax(S) == CHOOSE x \in S : \A y \in S : x >= y

RECURSIVE SumSeq(_)
SumSeq(s) == IF s = <<>> THEN 0 ELSE Head(s) + SumSeq(Tail(s))

\* The sum of f[x] over the finite set S.
RECURSIVE SumOver(_, _)
SumOver(f, S) ==
    IF S = {} THEN 0
    ELSE LET x == CHOOSE y \in S : TRUE IN f[x] + SumOver(f, S \ {x})

\* A fraction n/d, kept with a positive denominator (d /= 0).
Frac(n, d) == IF d < 0 THEN [n |-> -n, d |-> -d] ELSE [n |-> n, d |-> d]

\* Python's int(n / d): truncation towards zero (d /= 0).
PyInt(n, d) ==
    LET q == Abs(n) \div Abs(d)
    IN  IF (n < 0) = (d < 0) THEN q ELSE -q

\* Python's list[k] for a list of length len: the 1-based position read,
\* or 0 when the access raises IndexError. Negative indices count from the end.
PyIndex(k, len) ==
    IF 0 <= k /\ k < len THEN k + 1
    ELSE IF k < 0 /\ -len <= k THEN len + k + 1
    ELSE 0

\* len(range(n))
RangeLen(n) == IF n > 0 THEN n ELSE 0

\* sorted(l, key=itemgetter(...)): a stable insertion sort on the field key.
RECURSIVE InsertBy(_, _, _)
InsertBy(key, x, s) ==
    IF s = <<>> THEN <<x>>
    ELSE IF x[key] < Head(s)[key] THEN <<x>> \o s
    ELSE <<Head(s)>> \o InsertBy(key, x, Tail(s))

RECURSIVE SortedBy(_, _)
SortedBy(key, l) ==
    IF l = <<>> THEN <<>>
    ELSE InsertBy(key, l[Len(l)], SortedBy(key, SubSeq(l, 1, Len(l) - 1)))

(***************************************************************************)
(* im_binning.py                                                           *)
(***************************************************************************)
\* get_points(spec)
get_points(s) == s.pts

\* The ion mobility values get_extrema walks over: every point of every
\* spectrum it is given, whatever the spectrum's MS level.
AllIMs(spectra_) ==
    UNION {{get_points(spectra_[s])[k].im : k \in 1..Len(get_points(spectra_[s]))} :
            s \in 1..Len(spectra_)}

\* get_extrema(spectra): smallest_im starts at float('inf') and largest_im at
\* -1.0, so the loop leaves the minimum, and the maximum of -1 and the values.
get_extrema(spectra_) ==
    [smallest_im |-> SetMin(AllIMs(spectra_)),
     largest_im  |-> SetMax(AllIMs(spectra_) \cup {-1})]

\* PrimaryIdx without lines 163-164 (the clamp forgotten).
PrimaryIdx_NoClamp(im) == PyInt((im - first_im) * bin_size.d, bin_size.n)

\* Step 1 of bin_spectrum, pass 1: int((im - first_im) / bin_size), then the
\* clamp to num_bins - 1. bin_size.n /= 0.
PrimaryIdx(im) ==
    LET bin_idx == PyInt((im - first_im) * bin_size.d, bin_size.n)
    IN  IF bin_idx >= num_bins THEN num_bins - 1 ELSE bin_idx

\* BelowOffset with <= for < on line 168.
BelowOffset_Inclusive(im) == im * offset_im.d <= offset_im.n

\* im < offset_im
BelowOffset(im) == im * offset_im.d < offset_im.n

\* Step 1 of bin_spectrum, pass 2: bin 0 below offset_im, otherwise
\* int((im - offset_im) / bin_size) + 1 with the clamp to num_bins.
SecondaryIdx(im) ==
    IF BelowOffset(im) THEN 0
    ELSE LET bin_idx == PyInt((im * offset_im.d - offset_im.n) * bin_size.d,
                              offset_im.d * bin_size.n) + 1
         IN  IF bin_idx > num_bins THEN num_bins ELSE bin_idx

\* temp_bins after step 1: bin b (1-based) holds, in sorted_points order, a
\* copy of every point whose primary index reads list position b.
TempBins(sorted_points) ==
    [b \in 1..RangeLen(num_bins) |->
        SelectSeq(sorted_points,
                  LAMBDA p : PyIndex(PrimaryIdx(p.im), RangeLen(num_bins)) = b)]

\* TempBins2 with the first half-bin never filled (lines 168-169 dropped).
TempBins2_NoFirstHalfBin(sorted_points) ==
    [b \in 1..RangeLen(num_bins + 1) |->
        IF b = 1 THEN <<>>
        ELSE SelectSeq(sorted_points,
                 LAMBDA p : PyIndex(SecondaryIdx(p.im), RangeLen(num_bins + 1)) = b)]

\* TempBins2 without the list(...) copies of lines 169, 172 and 174: the
\* secondary temp bins hold the very rows of the primary ones, so they show
\* the intensities pass 1 has written into them (lines 191-192, 200-201).
TempBins2_Aliased(sorted_points) ==
    LET n == Len(sorted_points)
        run(k) == {j \in 1..n :
                     /\ sorted_points[j].mz = sorted_points[k].mz
                     /\ PrimaryIdx(sorted_points[j].im)
                          = PrimaryIdx(sorted_points[k].im)}
        shared == [k \in 1..n |->
                     [sorted_points[k] EXCEPT !.inten =
                        SumOver([j \in 1..n |-> sorted_points[j].inten], run(k))]]
    IN  [b \in 1..RangeLen(num_bins + 1) |->
            SelectSeq(shared,
                LAMBDA p : PyIndex(SecondaryIdx(p.im), RangeLen(num_bins + 1)) = b)]

\* temp_bins2 after step 1 (num_bins + 1 bins).
TempBins2(sorted_points) ==
    [b \in 1..RangeLen(num_bins + 1) |->
        SelectSeq(sorted_points,
                  LAMBDA p : PyIndex(SecondaryIdx(p.im), RangeLen(num_bins + 1)) = b)]

\* Step 1 raises ZeroDivisionError at its first point when bin_size is 0.
DividesByZero(sorted_points) == sorted_points /= <<>> /\ bin_size.n = 0

\* Step 1 raises IndexError when a computed index is outside its list.
IndexOutOfRange(sorted_points) ==
    \E k \in 1..Len(sorted_points) :
        LET im == sorted_points[k].im
        IN  \/ PyIndex(PrimaryIdx(im), RangeLen(num_bins)) = 0
            \/ PyIndex(SecondaryIdx(im), RangeLen(num_bins + 1)) = 0

\* Overwrite with the range one short: the last point of the slice is left out.
Overwrite_OneShort(l, mz_start, num_mz, running_intensity) ==
    [k \in 1..Len(l) |->
        IF mz_start <= k /\ k < mz_start + num_mz - 1
        THEN [l[k] EXCEPT !.inten = running_intensity]
        ELSE l[k]]

\* for k in range(mz_start, mz_start + num_mz): l[k][2] = running_intensity
\* (mz_start is 1-based here)
Overwrite(l, mz_start, num_mz, running_intensity) ==
    [k \in 1..Len(l) |->
        IF mz_start <= k /\ k < mz_start + num_mz
        THEN [l[k] EXCEPT !.inten = running_intensity]
        ELSE l[k]]

\* The loop of steps 2 and 3 over the m/z-sorted bin, from position j on.
RECURSIVE AggLoop(_, _, _, _, _, _)
AggLoop(l, j, mz_start, num_mz, curr_mz, running_intensity) ==
    IF j > Len(l)
    THEN \* Take care of the last slice (if required)
         IF num_mz > 0 THEN Overwrite(l, mz_start, num_mz, running_intensity)
         ELSE l
    ELSE IF l[j].mz = curr_mz
    THEN AggLoop(l, j + 1, mz_start, num_mz + 1, curr_mz,
                 running_intensity + l[j].inten)
    ELSE AggLoop(Overwrite(l, mz_start, num_mz, running_intensity),
                 j + 1, j, 1, l[j].mz, l[j].inten)

\* Steps 2 and 3 on one non-empty bin: sort by m/z, then sum the intensities of
\* each m/z slice into every point of the slice.
Aggregate(temp_bin) ==
    LET l == SortedBy("mz", temp_bin)
    IN  AggLoop(l, 1, 1, 0, l[1].mz, 0)

\* Steps 2.5 and 3.5: the spectrum built from an aggregated bin.
Synthesize(rt, l) ==
    [rt    |-> rt,
     peaks |-> [k \in 1..Len(l) |-> <<l[k].mz, l[k].inten>>],
     fda   |-> [k \in 1..Len(l) |-> l[k].im]]

\* bins[b].extend(...) and exps[b].addSpectrum(...) for every non-empty temp bin.
ExtendBins(bins_, temp) ==
    [b \in 1..Len(bins_) |->
        IF temp[b] = <<>> THEN bins_[b] ELSE bins_[b] \o Aggregate(temp[b])]

\* AddSpectra with the new spectrum put in front of the ones already held.
AddSpectra_InFront(exps_, temp, rt) ==
    [b \in 1..Len(exps_) |->
        IF temp[b] = <<>> THEN exps_[b]
        ELSE <<Synthesize(rt, Aggregate(temp[b]))>> \o exps_[b]]

AddSpectra(exps_, temp, rt) ==
    [b \in 1..Len(exps_) |->
        IF temp[b] = <<>> THEN exps_[b]
        ELSE Append(exps_[b], Synthesize(rt, Aggregate(temp[b])))]

(***************************************************************************)
(* The experiment loaded from the mzML file: 1 .. MaxScans spectra holding *)
(* 1 .. MaxPoints points in all. Spectrum s has retention time s. The k-th *)
(* point of the experiment has intensity k: im_binning.py never compares   *)
(* or branches on an intensity, it only adds and copies them. Of a         *)
(* spectrum that is not of MS level 1 it reads the ion mobilities only     *)
(* (get_extrema), so the points of such a spectrum all have m/z 1.         *)
(***************************************************************************)
Offset(lens, s) == SumSeq(SubSeq(lens, 1, s - 1))

Experiment(lens, levels, cells) ==
    [s \in 1..Len(lens) |->
        [ms  |-> levels[s],
         rt  |-> s,
         pts |-> [k \in 1..lens[s] |->
                    [rt    |-> s,
                     mz    |-> IF levels[s] = 1
                               THEN cells[Offset(lens, s) + k][1] ELSE 1,
                     inten |-> Offset(lens, s) + k,
                     im    |-> cells[Offset(lens, s) + k][2]]]]]

\* The shapes of an experiment: the number of points of each spectrum.
Shapes(n) ==
    {l \in [1..n -> 0..MaxPoints] : SumSeq(l) >= 1 /\ SumSeq(l) <= MaxPoints}

PPIdle ==
    /\ spec = <<>>
    /\ min_req = 1
    /\ window_size = [inf |-> TRUE, size |-> 0]
    /\ small_peak = 10
    /\ strict = TRUE
    /\ sequential = TRUE
    /\ picked = <<>>
    /\ new_spec = <<>>
    /\ idx = 1
    /\ last = [kind |-> "none"]
    /\ ppc = "idle"

\* Module level of im_binning.py (lines 7-13) and the argument parsing of main.
Init ==
    /\ \E n \in 1..MaxScans :
         \E lens \in Shapes(n), levels \in [1..n -> {1, 2}] :
           \E cells \in [1..SumSeq(lens) -> MZs \X (0..MaxIM)] :
             spectra = Experiment(lens, levels, cells)
    /\ num_bins \in -1..MaxBins
    /\ first_im = 0 /\ last_im = 0 /\ delta_im = 0
    /\ bin_size = Frac(0, 1)
    /\ offset_im = Frac(0, 1)
    /\ bins = <<>> /\ exps = <<>>
    /\ bins2 = <<>> /\ exps2 = <<>>
    /\ i = 1
    /\ pc = "setup_bins"
    /\ PPIdle

\* setup_bins with "offset_im = bin_size + first_im" (the "/ 2.0" of line 94
\* forgotten): the secondary bins start where the primary ones do.
setup_bins_NoHalfOffset ==
    /\ pc = "setup_bins"
    /\ LET ext == get_extrema(spectra)
           bs  == Frac(ext.largest_im - ext.smallest_im, num_bins)
       IN  /\ first_im' = ext.smallest_im
           /\ last_im' = ext.largest_im
           /\ delta_im' = ext.largest_im - ext.smallest_im
           /\ IF num_bins = 0
              THEN /\ pc' = "ZeroDivisionError"
                   /\ UNCHANGED <<bin_size, offset_im, bins, exps, bins2, exps2>>
              ELSE /\ bin_size' = bs
                   /\ offset_im' = Frac(bs.n + bs.d * ext.smallest_im, bs.d)
                   /\ bins' = [b \in 1..RangeLen(num_bins) |-> <<>>]
                   /\ exps' = [b \in 1..RangeLen(num_bins) |-> <<>>]
                   /\ bins2' = [b \in 1..RangeLen(num_bins + 1) |-> <<>>]
                   /\ exps2' = [b \in 1..RangeLen(num_bins + 1) |-> <<>>]
                   /\ pc' = "main_loop"
    /\ UNCHANGED <<spectra, num_bins, i, ppvars>>

\* setup_bins(spectra): bin_size = delta_im / num_bins raises ZeroDivisionError
\* for num_bins = 0, after first_im, last_im and delta_im have been assigned.
setup_bins ==
    /\ pc = "setup_bins"
    /\ LET ext == get_extrema(spectra)
           bs  == Frac(ext.largest_im - ext.smallest_im, num_bins)
       IN  /\ first_im' = ext.smallest_im
           /\ last_im' = ext.largest_im
           /\ delta_im' = ext.largest_im - ext.smallest_im
           /\ IF num_bins = 0
              THEN /\ pc' = "ZeroDivisionError"
                   /\ UNCHANGED <<bin_size, offset_im, bins, exps, bins2, exps2>>
              ELSE /\ bin_size' = bs
                   /\ offset_im' = Frac(bs.n + 2 * bs.d * ext.smallest_im, 2 * bs.d)
                   /\ bins' = [b \in 1..RangeLen(num_bins) |-> <<>>]
                   /\ exps' = [b \in 1..RangeLen(num_bins) |-> <<>>]
                   /\ bins2' = [b \in 1..RangeLen(num_bins + 1) |-> <<>>]
                   /\ exps2' = [b \in 1..RangeLen(num_bins + 1) |-> <<>>]
                   /\ pc' = "main_loop"
    /\ UNCHANGED <<spectra, num_bins, i, ppvars>>

\* Main loop: "Currently only process MS1 spectra".
SkipSpectrum ==
    /\ pc = "main_loop"
    /\ i <= Len(spectra)
    /\ spectra[i].ms /= 1
    /\ i' = i + 1
    /\ UNCHANGED <<spectra, num_bins, first_im, last_im, delta_im, bin_size,
                   offset_im, bins, exps, bins2, exps2, pc, ppvars>>

\* bin_spectrum(spectra[i]): steps 1, 2, 2.5, 3 and 3.5. An exception in step 1
\* ends the program before any global is touched.
bin_spectrum ==
    /\ pc = "main_loop"
    /\ i <= Len(spectra)
    /\ spectra[i].ms = 1
    /\ LET sorted_points == SortedBy("im", get_points(spectra[i]))
           rt == spectra[i].rt
       IN  IF DividesByZero(sorted_points)
           THEN /\ pc' = "ZeroDivisionError"
                /\ UNCHANGED <<bins, exps, bins2, exps2, i>>
           ELSE IF IndexOutOfRange(sorted_points)
           THEN /\ pc' = "IndexError"
                /\ UNCHANGED <<bins, exps, bins2, exps2, i>>
           ELSE /\ bins' = ExtendBins(bins, TempBins(sorted_points))
                /\ exps' = AddSpectra(exps, TempBins(sorted_points), rt)
                /\ bins2' = ExtendBins(bins2, TempBins2(sorted_points))
                /\ exps2' = AddSpectra(exps2, TempBins2(sorted_points), rt)
                /\ i' = i + 1
                /\ pc' = pc
    /\ UNCHANGED <<spectra, num_bins, first_im, last_im, delta_im, bin_size,
                   offset_im, ppvars>>

\* The loop over spectra ends (find_features, which only reads exps and exps2,
\* is an external collaborator).
EndLoop ==
    /\ pc = "main_loop"
    /\ i > Len(spectra)
    /\ pc' = "done"
    /\ UNCHANGED <<spectra, num_bins, first_im, last_im, delta_im, bin_size,
                   offset_im, bins, exps, bins2, exps2, i, ppvars>>

Next == setup_bins \/ SkipSpectrum \/ bin_spectrum \/ EndLoop

Spec == Init /\ [][Next]_vars

(***************************************************************************)
(* peak_picker_im.py: peak_pick on one MS-level-1 spectrum, after          *)
(* spec.sortByPosition(). Sample k (1-based) is at position spec[k].pos,   *)
(* in units of 0.1; small_peak is in percent; window_size is               *)
(* [inf |-> TRUE] for float('Inf'), else [inf |-> FALSE, size |-> n].      *)
(***************************************************************************)
Intensities == {0, 6, 10}

num_peaks == Len(spec)

\* sorted(peak_idx, reverse=True) on [intensity, index]: t comes before s.
RankedBefore(t, s) ==
    \/ spec[t].inten > spec[s].inten
    \/ spec[t].inten = spec[s].inten /\ t > s

\* i = idx if sequential else peak_idx[idx][1]
SeedOf(k) ==
    IF sequential THEN k
    ELSE CHOOSE s \in 1..num_peaks :
            Cardinality({t \in 1..num_peaks : RankedBefore(t, s)}) = k - 1

\* abs(spec[j].getPos() - init_position) > window_size
OutsideWindow(j, seed) ==
    ~window_size.inf /\ Abs(spec[j].pos - spec[seed].pos) > window_size.size

\* spec[j].getIntensity() <= init_intensity * small_peak
IsSmallPeak(j, seed) == spec[j].inten * 100 <= spec[seed].inten * small_peak

NoWalk ==
    [total |-> 0, count |-> 0, bound |-> 0, sflag |-> FALSE, threshold |-> 0,
     stop |-> "none"]

\* AlreadyPicked with the test of lines 92-93 and 123-124 dropped.
AlreadyPicked_Never(j) == FALSE

\* Lines 92 and 123: "if picked[j]: break".
AlreadyPicked(j) == picked[j]

\* BreaksOnIncrease with the strict flag ignored.
BreaksOnIncrease_StrictIgnored(seed, j, dir, w) == w.sflag \/ j - dir = seed

\* Lines 100 and 130: "if strict or sflag or j + 1 == i: break" at an increase.
BreaksOnIncrease(seed, j, dir, w) == strict \/ w.sflag \/ j - dir = seed

\* One of the two walks from the seed, from sample j on; dir is -1 for the walk
\* left (lines 90-112) and 1 for the walk right (lines 121-141). w holds
\* total_intensity, left_picked / right_picked (count), low_bound / high_bound
\* (bound), sflag and threshold; stop records which break, or the end of the
\* range, ended the loop.
RECURSIVE Walk(_, _, _, _)
Walk(seed, j, dir, w) ==
    IF j < 1 \/ j > num_peaks THEN [w EXCEPT !.stop = "end"]
    ELSE IF AlreadyPicked(j) THEN [w EXCEPT !.stop = "picked"]
    ELSE IF OutsideWindow(j, seed) THEN [w EXCEPT !.stop = "window"]
    ELSE LET increase == spec[j].inten > spec[j - dir].inten
         IN  IF increase /\ BreaksOnIncrease(seed, j, dir, w)
             THEN [w EXCEPT !.stop = "abort"]
             ELSE LET w1 == [total     |-> w.total + spec[j].inten,
                             count     |-> w.count + 1,
                             bound     |-> w.bound + dir,
                             sflag     |-> w.sflag \/ increase,
                             threshold |-> IF increase THEN w.threshold + 1
                                           ELSE w.threshold,
                             stop      |-> "none"]
                  IN  IF w1.count >= w1.threshold /\ IsSmallPeak(j, seed)
                      THEN [w1 EXCEPT !.stop = "small"]
                      ELSE Walk(seed, j + dir, dir, w1)

\* LeftStart with total_intensity starting at 0 (line 80 forgotten).
LeftStart_NoSeedIntensity(seed) ==
    [total |-> 0, count |-> 0, bound |-> seed,
     sflag |-> FALSE, threshold |-> min_req, stop |-> "none"]

\* Lines 79-87: the locals before the walk left.
LeftStart(seed) ==
    [total |-> spec[seed].inten, count |-> 0, bound |-> seed,
     sflag |-> FALSE, threshold |-> min_req, stop |-> "none"]

\* RightStart without lines 117-118 (sflag and threshold not reset).
RightStart_NoReset(seed, left) ==
    [total |-> left.total, count |-> 0, bound |-> seed,
     sflag |-> left.sflag, threshold |-> left.threshold, stop |-> "none"]

\* Lines 117-118: sflag and threshold are reset; total_intensity carries on.
RightStart(seed, left) ==
    [total |-> left.total, count |-> 0, bound |-> seed,
     sflag |-> FALSE, threshold |-> min_req, stop |-> "none"]

WalkLeft(seed) == Walk(seed, seed - 1, -1, LeftStart(seed))
WalkRight(seed, left) == Walk(seed, seed + 1, 1, RightStart(seed, left))

\* Passes with the threshold test off by one (one neighbour too few passes).
Passes_Lenient(w) == ~(w.count + 1 < w.threshold)

\* Lines 114 and 143: "if picked < threshold: continue" is not taken.
Passes(w) == ~(w.count < w.threshold)

\* WeightedPos with every sample weighted alike (the weights forgotten).
WeightedPos_Unweighted(low, high, total_intensity) ==
    [num |-> SumOver([j \in low..high |-> spec[j].pos], low..high),
     den |-> high - low + 1]

\* Lines 146-151: total_position = sum of pos * (intensity / total_intensity),
\* as the exact fraction num / den.
WeightedPos(low, high, total_intensity) ==
    [num |-> SumOver([j \in low..high |-> spec[j].pos * spec[j].inten], low..high),
     den |-> total_intensity]

\* The loop of lines 147-148.
MarkPicked(low, high) ==
    [k \in 1..num_peaks |-> picked[k] \/ (low <= k /\ k <= high)]

\* The configurations and the spectrum peak_pick is called with.
InitPP ==
    /\ \E n \in 0..MaxLen : \E ints \in [1..n -> Intensities] :
         /\ spec = [k \in 1..n |-> [pos |-> 998 + k, inten |-> ints[k]]]
         /\ picked = [k \in 1..n |-> FALSE]
    /\ min_req \in 0..MaxReq
    /\ window_size \in {[inf |-> TRUE, size |-> 0], [inf |-> FALSE, size |-> 1],
                        [inf |-> FALSE, size |-> 2]}
    /\ small_peak \in {10, 60}
    /\ strict \in BOOLEAN
    /\ sequential \in BOOLEAN
    /\ new_spec = <<>>
    /\ idx = 1
    /\ last = [kind |-> "none", seed |-> 0, left |-> NoWalk, right |-> NoWalk]
    /\ ppc = "picking"
    /\ spectra = <<>> /\ num_bins = 0
    /\ first_im = 0 /\ last_im = 0 /\ delta_im = 0
    /\ bin_size = Frac(0, 1) /\ offset_im = Frac(0, 1)
    /\ bins = <<>> /\ exps = <<>> /\ bins2 = <<>> /\ exps2 = <<>>
    /\ i = 1 /\ pc = "idle"

PPConfig == <<spec, min_req, window_size, small_peak, strict, sequential>>

\* Lines 76-77: a seed already picked is skipped.
SkipPicked ==
    /\ ppc = "picking"
    /\ idx <= num_peaks
    /\ picked[SeedOf(idx)]
    /\ idx' = idx + 1
    /\ last' = [kind |-> "skipped", seed |-> SeedOf(idx),
                left |-> NoWalk, right |-> NoWalk]
    /\ UNCHANGED <<PPConfig, picked, new_spec, ppc, binvars>>

\* Lines 79-115 and 117-144 with a "continue" taken: the seed is rejected after
\* the walk left, or after the walk right.
RejectSeed ==
    /\ ppc = "picking"
    /\ idx <= num_peaks
    /\ ~picked[SeedOf(idx)]
    /\ LET seed  == SeedOf(idx)
           left  == WalkLeft(seed)
           right == WalkRight(seed, left)
       IN  /\ ~Passes(left) \/ ~Passes(right)
           /\ last' = [kind |-> "rejected", seed |-> seed, left |-> left,
                       right |-> IF Passes(left) THEN right ELSE NoWalk]
    /\ idx' = idx + 1
    /\ UNCHANGED <<PPConfig, picked, new_spec, ppc, binvars>>

\* Lines 79-156 with no "continue" taken: the span is marked and the composite
\* peak pushed. With total_intensity = 0 line 150 raises ZeroDivisionError
\* after picked[low_bound] has been set.
AcceptSeed ==
    /\ ppc = "picking"
    /\ idx <= num_peaks
    /\ ~picked[SeedOf(idx)]
    /\ LET seed  == SeedOf(idx)
           left  == WalkLeft(seed)
           right == WalkRight(seed, left)
           low_bound  == left.bound
           high_bound == right.bound
           total_intensity == right.total
           position == WeightedPos(low_bound, high_bound, total_intensity)
       IN  /\ Passes(left) /\ Passes(right)
           /\ last' = [kind |-> "accepted", seed |-> seed, left |-> left,
                       right |-> right]
           /\ IF total_intensity = 0
              THEN /\ picked' = MarkPicked(low_bound, low_bound)
                   /\ ppc' = "ZeroDivisionError"
                   /\ UNCHANGED <<new_spec, idx>>
              ELSE /\ picked' = MarkPicked(low_bound, high_bound)
                   /\ new_spec' = Append(new_spec,
                         [intensity |-> total_intensity,
                          posNum |-> position.num, posDen |-> position.den,
                          low |-> low_bound, high |-> high_bound])
                   /\ idx' = idx + 1
                   /\ ppc' = ppc
    /\ UNCHANGED <<PPConfig, binvars>>

\* Line 158: the seed loop is over, new_exp.addSpectrum(new_spec).
EndSpectrum ==
    /\ ppc = "picking"
    /\ idx > num_peaks
    /\ ppc' = "done"
    /\ UNCHANGED <<PPConfig, picked, new_spec, idx, last, binvars>>

NextPP == SkipPicked \/ RejectSeed \/ AcceptSeed \/ EndSpectrum

SpecPP == InitPP /\ [][NextPP]_vars

(***************************************************************************)
(* Properties of the binner.                                               *)
(***************************************************************************)
\* The spectra bin_spectrum has returned from.
Processed == {s \in 1..(i - 1) : spectra[s].ms = 1}

\* setup_bins has run and left a BinningContext with num_bins >= 1, bin_size > 0.
WellFormed == pc /= "setup_bins" /\ num_bins >= 1 /\ last_im > first_im

\* How many rows of l carry retention time rt, m/z mz and ion mobility im.
Count(l, rt, mz, im) ==
    Cardinality({k \in 1..Len(l) : l[k].rt = rt /\ l[k].mz = mz /\ l[k].im = im})

TotalLen(bs) == SumOver([b \in DOMAIN bs |-> Len(bs[b])], DOMAIN bs)

ProcessedPoints ==
    SumOver([s \in Processed |-> Len(spectra[s].pts)], Processed)

\* In bs, the copies of every processed point: as many as the scan holds, all
\* of them in one bin.
PlacedOnce(bs) ==
    \A s \in Processed : \A k \in 1..Len(spectra[s].pts) :
        LET p == spectra[s].pts[k]
            holding == {b \in DOMAIN bs : Count(bs[b], p.rt, p.mz, p.im) > 0}
            copies == [b \in DOMAIN bs |-> Count(bs[b], p.rt, p.mz, p.im)]
        IN  /\ Cardinality(holding) = 1
            /\ SumOver(copies, DOMAIN bs) = Count(spectra[s].pts, p.rt, p.mz, p.im)

\* C1 (partition completeness): the points held by the primary bins, and by the
\* secondary bins, are exactly the points of the spectra bin_spectrum has
\* processed, each in exactly one bin of each pass; and in a well-formed
\* binning context every call of bin_spectrum returns (no index is out of range).
C1_PartitionComplete ==
    /\ TotalLen(bins) = ProcessedPoints
    /\ TotalLen(bins2) = ProcessedPoints
    /\ PlacedOnce(bins)
    /\ PlacedOnce(bins2)
    /\ Len(bins) = Len(exps) /\ Len(bins2) = Len(exps2)
    /\ WellFormed => pc \in {"main_loop", "done"}

C1_Witness ==
    /\ pc = "done"
    /\ num_bins = 2
    /\ Cardinality(Processed) = 2
    /\ bins[1] /= <<>> /\ bins[2] /= <<>>
    /\ bins2[1] /= <<>> /\ bins2[3] /= <<>>

\* The list position (1-based) of the bin step 1 gives a point in a pass.
BinOf(pass, im) ==
    IF pass = 1 THEN PyIndex(PrimaryIdx(im), RangeLen(num_bins))
    ELSE PyIndex(SecondaryIdx(im), RangeLen(num_bins + 1))

\* The sum of the raw intensities of the processed points that step 1 puts in
\* bin b (1-based) of a pass.
RawSum(pass, b) ==
    LET ofScan == [s \in Processed |->
          LET pts == spectra[s].pts
          IN  SumOver([k \in 1..Len(pts) |->
                         IF BinOf(pass, pts[k].im) = b THEN pts[k].inten ELSE 0],
                      1..Len(pts))]
    IN  SumOver(ofScan, Processed)

BinSum(l) == SumOver([k \in 1..Len(l) |-> l[k].inten], 1..Len(l))

\* C2 (aggregation conservation), as claimed: in every bin of both passes the
\* intensities after aggregation add up to the raw intensities of the points
\* assigned to the bin.
C2_Conservation ==
    /\ \A b \in DOMAIN bins :
         BinSum(bins[b]) = RawSum(1, b)
    /\ \A b \in DOMAIN bins2 :
         BinSum(bins2[b]) = RawSum(2, b)

\* The rows of a synthesized spectrum, as the point list it was built from.
Rows(sp) ==
    [k \in 1..Len(sp.peaks) |->
        [rt |-> sp.rt, mz |-> sp.peaks[k][1], inten |-> sp.peaks[k][2],
         im |-> sp.fda[k]]]

NoTwoShareMZ(l) == \A j, k \in 1..Len(l) : j /= k => l[j].mz /= l[k].mz

AllSpectra ==
    UNION {{exps[b][k] : k \in 1..Len(exps[b])} : b \in DOMAIN exps}
    \cup UNION {{exps2[b][k] : k \in 1..Len(exps2[b])} : b \in DOMAIN exps2}

\* C3 (idempotence of grouping), as claimed: aggregating an aggregated point
\* list again leaves it unchanged, and no two of its rows share an m/z.
C3_Idempotent ==
    \A sp \in AllSpectra :
        /\ Aggregate(Rows(sp)) = Rows(sp)
        /\ NoTwoShareMZ(Rows(sp))

Clamp(x, lo, hi) == IF x < lo THEN lo ELSE IF x > hi THEN hi ELSE x

\* floor((im - first_im) / bin_size) clamped to [0, num_bins - 1], for delta_im > 0.
ExpectedPrimary(im) ==
    Clamp(((im - first_im) * num_bins) \div delta_im, 0, num_bins - 1)

\* C4 (primary assignment): in a well-formed context the index computed for
\* every ion mobility in [first_im, last_im] is floor((im - first_im) / bin_size)
\* clamped to [0, num_bins - 1], last_im gets num_bins - 1, no IndexError is
\* raised, and every point held by a primary bin is in the bin of that index.
C4_PrimaryAssignment ==
    /\ WellFormed =>
         /\ \A im \in first_im..last_im :
              /\ PrimaryIdx(im) = ExpectedPrimary(im)
              /\ PrimaryIdx(im) \in 0..(num_bins - 1)
         /\ PrimaryIdx(last_im) = num_bins - 1
         /\ pc /= "IndexError"
    /\ \A b \in DOMAIN bins : \A k \in 1..Len(bins[b]) :
         /\ WellFormed
         /\ b - 1 = ExpectedPrimary(bins[b][k].im)
    /\ \A s \in Processed : \A k \in 1..Len(spectra[s].pts) :
         LET p == spectra[s].pts[k]
         IN  Count(bins[ExpectedPrimary(p.im) + 1], p.rt, p.mz, p.im) > 0

C4_Witness ==
    /\ pc = "done"
    /\ num_bins = 2
    /\ bins[1] /= <<>>
    /\ \E k \in 1..Len(bins[2]) : bins[2][k].im = last_im

\* Secondary bin k (0 .. num_bins) as an interval, in units of bin_size / (2 *
\* num_bins): bin 0 starts at first_im, bins 0 and num_bins are half a bin wide,
\* the others a full bin, and each bin starts where the one before it ends.
SecWidth(k) == IF k = 0 \/ k = num_bins THEN delta_im ELSE 2 * delta_im
RECURSIVE SecLow(_)
SecLow(k) ==
    IF k = 0 THEN 2 * num_bins * first_im ELSE SecLow(k - 1) + SecWidth(k - 1)
SecHigh(k) == SecLow(k) + SecWidth(k)

InSecBin(im, k) ==
    /\ SecLow(k) <= 2 * num_bins * im
    /\ \/ 2 * num_bins * im < SecHigh(k)
       \/ k = num_bins /\ im = last_im

\* C5 (secondary assignment): in a well-formed context the num_bins + 1
\* secondary intervals end at last_im, every ion mobility in [first_im,
\* last_im] gets the index of the one interval that holds it (0 below
\* offset_im), and every point held by a secondary bin lies in its interval.
C5_SecondaryAssignment ==
    /\ WellFormed =>
         /\ SecHigh(num_bins) = 2 * num_bins * last_im
         /\ \A im \in first_im..last_im :
              /\ SecondaryIdx(im) \in 0..num_bins
              /\ (SecondaryIdx(im) = 0) = (2 * num_bins * (im - first_im) < delta_im)
              /\ \A k \in 0..num_bins : (SecondaryIdx(im) = k) = InSecBin(im, k)
    /\ \A b \in DOMAIN bins2 : \A k \in 1..Len(bins2[b]) :
         /\ WellFormed
         /\ InSecBin(bins2[b][k].im, b - 1)

C5_Witness ==
    /\ pc = "done"
    /\ num_bins = 2
    /\ delta_im = 2
    /\ SecondaryIdx(first_im + 1) = 1
    /\ \E k \in 1..Len(bins2[3]) : ~BelowOffset(bins2[3][k].im)

\* C10 (configuration errors), as claimed: bin_size > 0 (and num_bins > 0) in
\* every state in which bin_spectrum is about to assign a point to a bin.
C10_BinSizePositive ==
    (/\ pc = "main_loop"
     /\ i <= Len(spectra)
     /\ spectra[i].ms = 1
     /\ get_points(spectra[i]) /= <<>>)
    => (num_bins > 0 /\ bin_size.n > 0)

(***************************************************************************)
(* Properties of the peak picker.                                          *)
(***************************************************************************)
SpanSum(low, high) ==
    SumOver([k \in low..high |-> spec[k].inten], low..high)

Spans == {new_spec[n].low .. new_spec[n].high : n \in 1..Len(new_spec)}

\* C6 (peak picker conservation): every composite peak emitted has the
\* intensity of the sum of the raw intensities over its span [low, high], all
\* samples of the span are marked picked, and (unless line 150 raised) nothing
\* outside the emitted spans is.
C6_PeakConservation ==
    /\ \A n \in 1..Len(new_spec) :
         LET p == new_spec[n]
         IN  /\ 1 <= p.low /\ p.low <= p.high /\ p.high <= num_peaks
             /\ p.intensity = SpanSum(p.low, p.high)
             /\ \A k \in p.low..p.high : picked[k]
    /\ ppc /= "ZeroDivisionError" =>
         {k \in 1..num_peaks : picked[k]} = UNION Spans

C6_Witness ==
    /\ ~strict /\ ~sequential
    /\ Len(new_spec) = 2
    /\ \E n \in 1..2 : new_spec[n].high - new_spec[n].low >= 2

\* The scan of the weighted centroid case: 99.9 with intensity 6, then the seed
\* 100.0 with intensity 10.
CentroidScan == <<[pos |-> 999, inten |-> 6], [pos |-> 1000, inten |-> 10]>>

\* The same scan followed by 100.1 with intensity 0, a right neighbour that
\* satisfies the threshold and adds nothing to the weighted average.
CentroidScanRight == Append(CentroidScan, [pos |-> 1001, inten |-> 0])

\* posNum / posDen = 99.9625 (999.625 in units of 0.1)
IsCentroid(p) == p.intensity = 16 /\ p.posNum * 1000 = 999625 * p.posDen

\* C7 (weighted centroid case), as claimed: for the scan [99.9: 6, 100.0: 10]
\* with min_req = 1 and strict, one composite peak over seed and left
\* neighbour, with intensity 16 at 99.9625.
C7_AsClaimed ==
    (ppc = "done" /\ spec = CentroidScan /\ min_req = 1 /\ strict)
    => /\ Len(new_spec) = 1
       /\ IsCentroid(new_spec[1])
       /\ new_spec[1].low = 1 /\ new_spec[1].high = 2

\* C7, amended: for that scan the seed has no right neighbour and nothing is
\* emitted; with a right neighbour that satisfies the threshold (100.1 with
\* intensity 0) one composite peak over the three samples is emitted, with
\* intensity 16 at the intensity-weighted average 99.9625.
C7_CentroidWithRightNeighbour ==
    /\ (ppc = "done" /\ spec = CentroidScan /\ min_req = 1 /\ strict)
       => new_spec = <<>>
    /\ (ppc = "done" /\ spec = CentroidScanRight /\ min_req = 1 /\ strict)
       => /\ Len(new_spec) = 1
          /\ IsCentroid(new_spec[1])
          /\ new_spec[1].low = 1 /\ new_spec[1].high = 3

C7_Witness ==
    /\ ppc = "done" /\ spec = CentroidScanRight /\ min_req = 1 /\ strict
    /\ ~sequential
    /\ Len(new_spec) = 1

\* The samples of a walk's accumulated run whose intensity exceeds that of their
\* neighbour on the seed side (dir = -1: the run is w.bound .. seed - 1).
Increases(seed, dir, w) ==
    {j \in (IF dir = -1 THEN w.bound..(seed - 1) ELSE (seed + 1)..w.bound) :
        spec[j].inten > spec[j - dir].inten}

\* The non-increasing neighbours a walk accumulated.
NonIncreasing(seed, dir, w) == w.count - Cardinality(Increases(seed, dir, w))

LacksNeighbours(seed) ==
    LET left  == WalkLeft(seed)
        right == WalkRight(seed, left)
    IN  \/ NonIncreasing(seed, -1, left) < min_req
        \/ NonIncreasing(seed, 1, right) < min_req

\* C8 (rejection): with min_req >= 1, visiting a seed that lacks min_req
\* accumulated non-increasing neighbours on its left or on its right changes no
\* picked flag and emits nothing; and a scan of one sample ends with an empty
\* output scan.
C8_Rejection ==
    /\ [][(/\ ppc = "picking"
           /\ idx <= num_peaks
           /\ min_req >= 1
           /\ ~picked[SeedOf(idx)]
           /\ LacksNeighbours(SeedOf(idx)))
          => (picked' = picked /\ new_spec' = new_spec /\ ppc' = ppc)]_vars
    /\ []((ppc = "done" /\ num_peaks = 1 /\ min_req >= 1)
          => (new_spec = <<>> /\ picked = <<FALSE>>))

C8_Witness ==
    /\ min_req >= 1
    /\ last.kind = "rejected"
    /\ last.left.count >= min_req
    /\ last.right.stop /= "none"
    /\ last.right.count < min_req
    /\ new_spec = <<>>

\* One direction of the latest seed visit, strict = FALSE: the run holds at
\* most one increase, never at the seed's immediate neighbour; the required
\* count is min_req plus the increases of this direction alone; and an abort
\* happened at an increase that was at the immediate neighbour or the second.
ConcessionOK(seed, dir, w) ==
    LET inc == Increases(seed, dir, w)
        j   == w.bound + dir
    IN  /\ Cardinality(inc) <= 1
        /\ (seed + dir) \notin inc
        /\ w.sflag = (inc /= {})
        /\ w.threshold = min_req + Cardinality(inc)
        /\ w.stop = "abort" =>
             /\ spec[j].inten > spec[j - dir].inten
             /\ (j - dir = seed \/ inc /= {})

\* C9 (non-strict concession): with strict = FALSE each walk tolerates one
\* increase that is not at the immediate neighbour, which raises its required
\* count to min_req + 1, aborts at a second one, and the walk right starts
\* afresh whatever the walk left conceded.
C9_Concession ==
    (~strict /\ last.kind \in {"rejected", "accepted"})
    => /\ ConcessionOK(last.seed, -1, last.left)
       /\ last.right.stop /= "none" => ConcessionOK(last.seed, 1, last.right)

C9_Witness ==
    /\ ~strict
    /\ last.left.sflag
    /\ last.left.threshold = min_req + 1
    /\ last.left.count >= min_req + 1
    /\ last.right.stop /= "none"
    /\ ~last.right.sflag
    /\ last.right.threshold = min_req

(***************************************************************************)
(* Further properties of the binner.                                       *)
(***************************************************************************)
\* The ion mobilities of the points of the MS-level-1 spectra.
MS1IMs ==
    UNION {{spectra[s].pts[k].im : k \in 1..Len(spectra[s].pts)} :
             s \in {t \in 1..Len(spectra) : spectra[t].ms = 1}}

\* C11 (extent scanner), as claimed: once setup_bins has run, first_im and
\* last_im are the smallest and the largest ion mobility over the points of
\* the MS-level-1 spectra only; spectra of other MS levels have no influence.
C11_ExtentOverMS1Only ==
    (pc /= "setup_bins" /\ MS1IMs /= {})
    => (first_im = SetMin(MS1IMs) /\ last_im = SetMax(MS1IMs))

\* The points of the scan with retention time rt (scan rt) that step 1 puts
\* in bin b (1-based) of a pass, in the scan's order.
PointsIn(pass, b, rt) ==
    SelectSeq(spectra[rt].pts, LAMBDA p : BinOf(pass, p.im) = b)

\* The sum of the raw intensities of the points of m/z mz among raw.
RunSum(raw, mz) ==
    SumSeq([j \in 1..Len(raw) |-> IF raw[j].mz = mz THEN raw[j].inten ELSE 0])

\* The aggregated points sp of one scan in one bin, against the scan's raw
\* points in that bin: ascending m/z, every row carrying the sum of the raw
\* intensities of its m/z, and as many rows of each m/z and ion mobility as
\* there are raw points.
RunsAggregated(raw, sp) ==
    LET n == Len(sp.peaks)
    IN  /\ n = Len(raw)
        /\ \A k \in 1..(n - 1) : sp.peaks[k][1] <= sp.peaks[k + 1][1]
        /\ \A k \in 1..n :
             /\ sp.peaks[k][2] = RunSum(raw, sp.peaks[k][1])
             /\ Cardinality({j \in 1..n : /\ sp.peaks[j][1] = sp.peaks[k][1]
                                          /\ sp.fda[j] = sp.fda[k]})
                  = Cardinality({j \in 1..n : /\ raw[j].mz = sp.peaks[k][1]
                                              /\ raw[j].im = sp.fda[k]})

\* The rows of the spectra of a bin, one spectrum after the other.
RECURSIVE AllRows(_)
AllRows(e) ==
    IF e = <<>> THEN <<>>
    ELSE AllRows(SubSeq(e, 1, Len(e) - 1)) \o Rows(e[Len(e)])

\* C12 (run aggregation): the points a scan leaves in a bin, of either pass,
\* are in ascending order of m/z, and every point of every maximal run of equal
\* m/z (the last run and the runs of length one included) carries the sum of
\* the raw intensities of the run; there are as many points of each m/z and
\* ion mobility as the scan put in the bin, with the scan's retention time.
C12_RunAggregation ==
    /\ \A b \in DOMAIN exps :
         /\ bins[b] = AllRows(exps[b])
         /\ \A n \in 1..Len(exps[b]) :
              RunsAggregated(PointsIn(1, b, exps[b][n].rt), exps[b][n])
    /\ \A b \in DOMAIN exps2 :
         /\ bins2[b] = AllRows(exps2[b])
         /\ \A n \in 1..Len(exps2[b]) :
              RunsAggregated(PointsIn(2, b, exps2[b][n].rt), exps2[b][n])

\* A scan has left a run of two points of equal m/z in a primary bin, which is
\* also the last run of the bin; both carry the sum of the two raw intensities.
C12_Witness ==
    /\ pc = "done"
    /\ \E b \in DOMAIN exps : \E n \in 1..Len(exps[b]) :
         LET sp == exps[b][n]
             pts == spectra[sp.rt].pts
         IN  /\ Len(sp.peaks) = 2
             /\ Len(pts) = 2
             /\ sp.peaks[1][1] = sp.peaks[2][1]
             /\ sp.peaks[1][2] = pts[1].inten + pts[2].inten
             /\ sp.peaks[2][2] = pts[1].inten + pts[2].inten

\* Every row of the spectra of a pass carries the sum of the raw intensities,
\* as the experiment holds them, of its run in its bin of that pass.
FromRawIntensities(pass, es) ==
    \A b \in DOMAIN es : \A n \in 1..Len(es[b]) : \A k \in 1..Len(es[b][n].peaks) :
        es[b][n].peaks[k][2]
          = RunSum(PointsIn(pass, b, es[b][n].rt), es[b][n].peaks[k][1])

\* What a list of lists held before a step is still there, unchanged, after it.
Kept(before, after) ==
    \A b \in DOMAIN before :
        /\ b \in DOMAIN after
        /\ Len(before[b]) <= Len(after[b])
        /\ SubSeq(after[b], 1, Len(before[b])) = before[b]

\* C13 (no cross-pass aliasing): no step changes the points of the experiment
\* or a point or spectrum already held by a bin of either pass, and the sums
\* of both passes are sums of raw intensities: what pass 1 writes into its
\* copies is never seen by pass 2.
C13_NoCrossPassAliasing ==
    /\ [][/\ spectra' = spectra
          /\ Kept(bins, bins') /\ Kept(bins2, bins2')
          /\ Kept(exps, exps') /\ Kept(exps2, exps2')]_vars
    /\ [](FromRawIntensities(1, exps) /\ FromRawIntensities(2, exps2))

\* A scan with two points of equal m/z that share a primary bin, where both
\* carry the sum, and lie in two secondary bins, where each carries its own
\* raw intensity.
C13_Witness ==
    /\ pc = "done"
    /\ \E s \in Processed :
         LET pts == spectra[s].pts
         IN  /\ Len(pts) = 2
             /\ pts[1].mz = pts[2].mz
             /\ BinOf(1, pts[1].im) = BinOf(1, pts[2].im)
             /\ BinOf(2, pts[1].im) /= BinOf(2, pts[2].im)
             /\ \A k \in 1..2 :
                  /\ \E r \in 1..Len(bins[BinOf(1, pts[k].im)]) :
                       /\ bins[BinOf(1, pts[k].im)][r].im = pts[k].im
                       /\ bins[BinOf(1, pts[k].im)][r].inten
                            = pts[1].inten + pts[2].inten
                  /\ bins2[BinOf(2, pts[k].im)] = <<pts[k]>>

\* The retention times of the spectra a bin holds, in the order it holds them.
RTs(e) == [n \in 1..Len(e) |-> e[n].rt]

\* The scans bin_spectrum has processed, in processing order.
ProcessedInOrder ==
    SelectSeq([s \in 1..Len(spectra) |-> s], LAMBDA s : s \in Processed)

\* Those of them with at least one point in bin b (1-based) of a pass.
WithPointIn(pass, b) ==
    SelectSeq(ProcessedInOrder,
              LAMBDA s : \E k \in 1..Len(spectra[s].pts) :
                            BinOf(pass, spectra[s].pts[k].im) = b)

SameLengths(es) ==
    \A b \in DOMAIN es : \A n \in 1..Len(es[b]) :
        Len(es[b][n].fda) = Len(es[b][n].peaks)

\* C14 (synthesizer ordering), as claimed: every bin of every pass holds
\* exactly one spectrum per processed scan, in processing order, and the ion
\* mobility sequence of each spectrum is as long as its peak sequence.
C14_OnePerProcessedScan ==
    /\ \A b \in DOMAIN exps : RTs(exps[b]) = ProcessedInOrder
    /\ \A b \in DOMAIN exps2 : RTs(exps2[b]) = ProcessedInOrder
    /\ SameLengths(exps) /\ SameLengths(exps2)

\* C14, amended: every bin of every pass holds exactly one spectrum for each
\* processed scan that has a point in that bin and none for the other scans,
\* in processing order, and the ion mobility sequence of each spectrum is as
\* long as its (non-empty) peak sequence.
C14_OnePerScanWithPoints ==
    /\ \A b \in DOMAIN exps : RTs(exps[b]) = WithPointIn(1, b)
    /\ \A b \in DOMAIN exps2 : RTs(exps2[b]) = WithPointIn(2, b)
    /\ SameLengths(exps) /\ SameLengths(exps2)
    /\ \A b \in DOMAIN exps : \A n \in 1..Len(exps[b]) :
         exps[b][n].peaks /= <<>>
    /\ \A b \in DOMAIN exps2 : \A n \in 1..Len(exps2[b]) :
         exps2[b][n].peaks /= <<>>

\* Two scans processed: a primary bin holds a spectrum of each, the first
\* scan's first, and a secondary bin holds a spectrum of the second scan only.
C14_Witness ==
    /\ pc = "done"
    /\ Cardinality(Processed) = 2
    /\ \E b \in DOMAIN exps : RTs(exps[b]) = <<1, 2>>
    /\ \E b \in DOMAIN exps2 : RTs(exps2[b]) = <<2>>

(***************************************************************************)
(* The half-offset of the two passes. Ion mobilities are compared in units *)
(* of 1 / Scale, in which first_im, offset_im, bin_size / 4 and every bin  *)
(* edge are whole numbers.                                                 *)
(***************************************************************************)
Scale == 4 * bin_size.d * offset_im.d

Scaled(im) == im * Scale

QuarterBin == bin_size.n * offset_im.d

\* first_im + k * bin_size and offset_im + k * bin_size, scaled.
PrimaryEdge(k) == first_im * Scale + k * 4 * QuarterBin

SecondaryEdge(k) == 4 * bin_size.d * offset_im.n + k * 4 * QuarterBin

\* The edges the bin assigned to im in a pass shares with a neighbouring bin of
\* that pass: first_im and last_im, where the tiling ends, are none.
SharedEdges(pass, im) ==
    IF pass = 1
    THEN {PrimaryEdge(k) : k \in {PrimaryIdx(im), PrimaryIdx(im) + 1}
                                    \cap (1..(num_bins - 1))}
    ELSE {SecondaryEdge(k) : k \in {SecondaryIdx(im) - 1, SecondaryIdx(im)}
                                      \cap (0..(num_bins - 1))}

WalksRun ==
    IF last.kind \notin {"rejected", "accepted"} THEN {}
    ELSE {<<-1, last.left>>}
         \cup (IF last.right.stop /= "none" THEN {<<1, last.right>>} ELSE {})

\* C15 (strict abort), as claimed: with strict = TRUE a walk that ends at an
\* increase ends ABORTED and its seed is rejected, however many samples it had
\* accumulated; and a walk whose count meets the threshold has ended at the
\* small-peak early stop, at the window or at the end of the array.
C15_AbortRejects ==
    strict =>
        \A dw \in WalksRun :
            /\ dw[2].stop = "abort" => last.kind = "rejected"
            /\ Passes(dw[2]) => dw[2].stop \in {"small", "window", "end"}

\* One walk of the latest seed visit, strict = TRUE: no concession is made, the
\* run holds no increase, and a walk that ended at an increase ended at an
\* unpicked sample within the window, next to the run, that exceeds its
\* neighbour on the seed side.
StrictWalkOK(seed, dir, w) ==
    LET j == w.bound + dir
    IN  /\ ~w.sflag
        /\ w.threshold = min_req
        /\ Increases(seed, dir, w) = {}
        /\ w.count = Abs(w.bound - seed)
        /\ w.stop = "abort" =>
             /\ j \in 1..num_peaks
             /\ ~picked[j]
             /\ ~OutsideWindow(j, seed)
             /\ spec[j].inten > spec[j - dir].inten

\* C15, amended: with strict = TRUE a walk stops at the first unpicked sample
\* within the window that exceeds its neighbour on the seed side, leaving it
\* out of the run; the seed is rejected if and only if one of its walks has
\* accumulated fewer than min_req samples when it stops, whatever stopped it.
C15_StrictStopsAtIncrease ==
    (strict /\ last.kind \in {"rejected", "accepted"})
    => /\ \A dw \in WalksRun : StrictWalkOK(last.seed, dw[1], dw[2])
       /\ (last.kind = "rejected")
            = (\E dw \in WalksRun : dw[2].count < min_req)
       /\ last.kind = "accepted" => last.right.stop /= "none"

\* A seed accepted although its walk left ended at an increase, with min_req
\* samples accumulated before it.
C15_Witness ==
    /\ strict
    /\ min_req >= 1
    /\ last.kind = "accepted"
    /\ last.left.stop = "abort"
    /\ last.left.count >= min_req
    /\ new_spec /= <<>>

\* The emitted composites whose span holds sample k.
SpansHolding(k) ==
    {n \in 1..Len(new_spec) : new_spec[n].low <= k /\ k <= new_spec[n].high}

\* C16 (disjoint spans): the spans of the emitted composites are pairwise
\* disjoint; a sample is picked if and only if it lies in exactly one of them
\* (line 150 not having raised in the middle of an emission); no step resets a
\* picked flag or drops a composite; and visiting a seed that is rejected
\* changes no picked flag.
C16_DisjointSpans ==
    /\ [](/\ \A k \in 1..num_peaks : Cardinality(SpansHolding(k)) <= 1
          /\ \A n \in 1..Len(new_spec) :
               1 <= new_spec[n].low /\ new_spec[n].low <= new_spec[n].high
               /\ new_spec[n].high <= num_peaks
          /\ ppc /= "ZeroDivisionError" =>
               \A k \in 1..num_peaks :
                  picked[k] = (Cardinality(SpansHolding(k)) = 1))
    /\ [][/\ \A k \in 1..num_peaks : picked[k] => picked'[k]
          /\ Len(new_spec') >= Len(new_spec)
          /\ SubSeq(new_spec', 1, Len(new_spec)) = new_spec
          /\ last'.kind = "rejected" => picked' = picked]_vars

\* Two composites emitted, the later one next to the earlier one: its walk
\* ended at a sample the earlier one had picked.
C16_Witness ==
    /\ Len(new_spec) = 2
    /\ last.kind = "accepted"
    /\ last.left.stop = "picked" \/ last.right.stop = "picked"
    /\ \A k \in 1..num_peaks : picked[k]
=============================================================================
